---- MODULE Spec2Model ----
(***************************************************************************)
(* JumpStart model factory (src/src/sagemaker/jumpstart/factory/model.py): *)
(* get_init_kwargs, get_deploy_kwargs, get_register_kwargs and             *)
(* get_default_predictor as pipelines of default-filling steps over a      *)
(* mutable keyword-argument record.  One action per pipeline step.         *)
(***************************************************************************)
EXTENDS Integers, Sequences, FiniteSets, TLC

VARIABLES
    catalog,    \* the model catalog and session settings seen by the collaborators
    op,         \* entry point being executed: "none", "init", "deploy", "register", "predictor"
    status,     \* "idle", "running", "returned", "raised"
    pc,         \* index of the next pipeline step in Steps
    args,       \* the arguments the caller passed (snapshot taken at the call)
    kwargs,     \* the record being built (field name -> value)
    calls,      \* collaborator lookups issued so far, in order
    result,     \* what the caller receives
    callerEnv,  \* current content of the dict object the caller passed as env
    model_specs,\* local of get_register_kwargs
    predictor,  \* the predictor object handed to get_default_predictor
    previous    \* arguments and result of the caller's earlier call, if any

vars == <<catalog, op, status, pc, args, kwargs, calls, result, callerEnv,
          model_specs, predictor, previous>>

-----------------------------------------------------------------------------
(* Bounds of the model *)

\* at most this many optional arguments are supplied explicitly in one call
MaxExplicit == 2
\* at most this many catalog properties deviate from the base catalog
MaxDeviations == 1

-----------------------------------------------------------------------------
(* Python values *)

None == [t |-> "None"]
Bool(b) == [t |-> "bool", b |-> b]
Num(n) == [t |-> "int", n |-> n]
Str(s) == [t |-> "str", s |-> s]
Dict(d) == [t |-> "dict", d |-> d]
List(l) == [t |-> "list", l |-> l]
Obj(id) == [t |-> "obj", id |-> id]

EmptyMap == [k \in {} |-> None]

\* Python truth value of a value (the test made by `x or y`)
Truthy(v) ==
    CASE v.t = "None" -> FALSE
      [] v.t = "bool" -> v.b
      [] v.t = "int"  -> v.n # 0
      [] v.t = "str"  -> Len(v.s) > 0
      [] v.t = "dict" -> DOMAIN v.d # {}
      [] v.t = "list" -> Len(v.l) > 0
      [] OTHER        -> TRUE

\* str.startswith / str.endswith on character sequences
StartsWith(s, p) == Len(s) >= Len(p) /\ SubSeq(s, 1, Len(p)) = p
EndsWith(s, p) == Len(s) >= Len(p) /\ SubSeq(s, Len(s) - Len(p) + 1, Len(s)) = p

S3Scheme == <<"s", "3", ":", "/", "/">>
Slash == <<"/">>

-----------------------------------------------------------------------------
(* Program constants *)

JUMPSTART_DEFAULT_REGION_NAME == Str(<<"u", "s">>)
DEFAULT_JUMPSTART_SAGEMAKER_SESSION == Obj("default_session")
INFERENCE_ENTRY_POINT_SCRIPT_NAME == Str(<<"i", "n", "f", ".", "p", "y">>)
PredictorClass == Obj("Predictor")
INFERENCE_COMPONENT_BASED == Obj("INFERENCE_COMPONENT_BASED")
MODEL_BASED == Obj("MODEL_BASED")
DefaultModelVersion == Str(<<"*">>)

ModelId == Str(<<"m">>)
OtherRegion == Str(<<"e", "u">>)
UserSession == Obj("user_session")

-----------------------------------------------------------------------------
(* Sets of variants: base with at most k entries replaced by an alternative *)

RECURSIVE Variants(_, _, _)
Variants(base, alts, k) ==
    IF k = 0 THEN {base}
    ELSE LET prev == Variants(base, alts, k - 1)
         IN  prev \cup UNION { UNION { {[a EXCEPT ![f] = v] : v \in alts[f]}
                                       : f \in DOMAIN alts }
                               : a \in prev }

-----------------------------------------------------------------------------
(* The catalog: what the collaborators answer *)

LookupKinds ==
    {"resource_name_base", "instance_type", "image_uri", "model_uri",
     "supports_script", "script_uri", "env_vars", "init_kwargs",
     "model_package_arn", "resource_requirements", "deploy_kwargs",
     "verify_specs", "serializer", "deserializer", "accept", "content_type"}

PrefixUri == Str(S3Scheme \o <<"b", "/">>)
TarballUri == Str(S3Scheme \o <<"b">>)

CatalogEnv == Dict(("A" :> Str(<<"2">>)) @@ ("B" :> Str(<<"3">>)))

BaseCatalog ==
    [known          |-> TRUE,
     deprecated     |-> FALSE,
     vulnerable     |-> FALSE,
     euSupported    |-> TRUE,
     failKind       |-> "none",
     supportsScript |-> TRUE,
     defaultEnv     |-> CatalogEnv,
     modelUri       |-> PrefixUri,
     nameBase       |-> Str(<<"b", "a", "s", "e">>),
     bundles        |-> TRUE,
     defaultFlag    |-> TRUE,
     userFlag       |-> TRUE]

CatalogAlts ==
    [known          |-> {FALSE},
     deprecated     |-> {TRUE},
     vulnerable     |-> {TRUE},
     euSupported    |-> {FALSE},
     failKind       |-> LookupKinds,
     supportsScript |-> {FALSE},
     defaultEnv     |-> {Dict(EmptyMap)},
     modelUri       |-> {TarballUri},
     nameBase       |-> {None},
     bundles        |-> {FALSE},
     defaultFlag    |-> {FALSE},
     userFlag       |-> {FALSE}]

Catalogs == Variants(BaseCatalog, CatalogAlts, MaxDeviations)

\* the kwargs bundles of the model specs
InitBundle ==
    IF catalog.bundles
    THEN ("enable_network_isolation" :> Bool(TRUE))
         @@ ("name" :> Str(<<"b", "n">>))
         @@ ("instance_type" :> Str(<<"b", "i">>))
    ELSE EmptyMap

DeployBundle ==
    IF catalog.bundles
    THEN ("instance_type" :> Str(<<"b", "i">>))
         @@ ("endpoint_name" :> Str(<<"b", "e">>))
         @@ ("initial_instance_count" :> Num(5))
         @@ ("model_data_download_timeout" :> Num(600))
    ELSE EmptyMap

\* session.settings.include_jumpstart_tags
IncludeJumpstartTags(session) ==
    IF session = UserSession THEN catalog.userFlag ELSE catalog.defaultFlag

-----------------------------------------------------------------------------
(* Arguments of the entry points *)

AllNone(fields) == [f \in fields |-> None]

EnvA == Dict("A" :> Str(<<"1">>))
EnvC == Dict("C" :> Str(<<"4">>))
LocalDir == Str(<<"b", "/">>)
Descriptor(uri) ==
    Dict("S3DataSource" :>
         Dict(("S3Uri" :> uri)
              @@ ("S3DataType" :> Str(<<"S3Prefix">>))
              @@ ("CompressionType" :> Str(<<"None">>))))
UserTag == Dict(("Key" :> Str(<<"k">>)) @@ ("Value" :> Str(<<"v">>)))

\* parameters of get_init_kwargs (model_id is fixed)
InitParams ==
    {"model_from_estimator", "model_version", "tolerate_vulnerable_model",
     "tolerate_deprecated_model", "instance_type", "region", "image_uri",
     "model_data", "role", "predictor_cls", "env", "name", "sagemaker_session",
     "enable_network_isolation", "model_kms_key", "source_dir", "entry_point",
     "model_package_arn", "training_instance_type", "resources"}

InitDefaults == [AllNone(InitParams) EXCEPT !["model_from_estimator"] = Bool(FALSE)]

InitAlts ==
    [model_from_estimator      |-> {Bool(TRUE)},
     model_version             |-> {Str(<<"1">>)},
     tolerate_vulnerable_model |-> {Bool(TRUE)},
     tolerate_deprecated_model |-> {Bool(TRUE), Bool(FALSE)},
     instance_type             |-> {Str(<<"x">>), Str(<<>>)},
     region                    |-> {OtherRegion},
     image_uri                 |-> {Str(<<"i">>)},
     model_data                |-> {PrefixUri, TarballUri, LocalDir, Str(S3Scheme),
                                    Descriptor(PrefixUri)},
     role                      |-> {Str(<<"r">>)},
     predictor_cls             |-> {Obj("UserPredictor")},
     env                       |-> {Dict(EmptyMap), EnvA, EnvC},
     name                      |-> {Str(<<"n">>)},
     sagemaker_session         |-> {UserSession},
     enable_network_isolation  |-> {Bool(FALSE)},
     model_kms_key             |-> {Str(<<"k">>)},
     source_dir                |-> {Str(<<"d">>)},
     entry_point               |-> {Str(<<"e">>)},
     model_package_arn         |-> {Str(<<"a">>)},
     training_instance_type    |-> {Str(<<"t">>)},
     resources                 |-> {Obj("user_resources")}]

InitArgs == Variants(InitDefaults, InitAlts, MaxExplicit)

\* parameters of get_deploy_kwargs
DeployParams ==
    {"model_version", "region", "initial_instance_count", "instance_type",
     "endpoint_name", "tags", "kms_key", "model_data_download_timeout",
     "tolerate_vulnerable_model", "tolerate_deprecated_model",
     "sagemaker_session", "resources", "managed_instance_scaling",
     "endpoint_type"}

DeployAlts ==
    [model_version               |-> {Str(<<"1">>)},
     region                      |-> {OtherRegion},
     initial_instance_count      |-> {Num(2), Num(0)},
     instance_type               |-> {Str(<<"x">>)},
     endpoint_name               |-> {Str(<<"n">>)},
     tags                        |-> {List(<<UserTag>>), List(<<>>)},
     kms_key                     |-> {Str(<<"k">>)},
     model_data_download_timeout |-> {Num(30)},
     tolerate_vulnerable_model   |-> {Bool(TRUE)},
     tolerate_deprecated_model   |-> {Bool(TRUE)},
     sagemaker_session           |-> {UserSession},
     resources                   |-> {Obj("user_resources")},
     managed_instance_scaling    |-> {Str(<<"s">>)},
     endpoint_type               |-> {INFERENCE_COMPONENT_BASED, MODEL_BASED}]

DeployArgs == Variants(AllNone(DeployParams), DeployAlts, MaxExplicit)

\* parameters of get_register_kwargs
RegisterParams ==
    {"model_version", "region", "tolerate_deprecated_model",
     "tolerate_vulnerable_model", "sagemaker_session",
     "supported_content_types", "response_types", "image_uri", "description"}

RegisterAlts ==
    [model_version             |-> {Str(<<"1">>)},
     region                    |-> {OtherRegion},
     tolerate_deprecated_model |-> {Bool(TRUE)},
     tolerate_vulnerable_model |-> {Bool(TRUE)},
     sagemaker_session         |-> {UserSession},
     supported_content_types   |-> {List(<<Str(<<"c">>)>>), List(<<>>)},
     response_types            |-> {List(<<Str(<<"a">>)>>)},
     image_uri                 |-> {Str(<<"i">>)},
     description               |-> {Str(<<"d">>)}]

RegisterArgs == Variants(AllNone(RegisterParams), RegisterAlts, MaxExplicit)

\* parameters of get_default_predictor (all required)
PredictorParams ==
    {"model_version", "region", "tolerate_vulnerable_model",
     "tolerate_deprecated_model", "sagemaker_session"}

PredictorDefaults ==
    [model_version             |-> DefaultModelVersion,
     region                    |-> JUMPSTART_DEFAULT_REGION_NAME,
     tolerate_vulnerable_model |-> Bool(FALSE),
     tolerate_deprecated_model |-> Bool(FALSE),
     sagemaker_session         |-> DEFAULT_JUMPSTART_SAGEMAKER_SESSION]

PredictorAlts ==
    [model_version             |-> {Str(<<"1">>)},
     region                    |-> {OtherRegion},
     tolerate_vulnerable_model |-> {Bool(TRUE)},
     tolerate_deprecated_model |-> {Bool(TRUE)},
     sagemaker_session         |-> {UserSession}]

PredictorArgs == Variants(PredictorDefaults, PredictorAlts, MaxExplicit)

PredictorTypes == {"Predictor", "UserPredictor"}

FreshPredictor(type) ==
    [type         |-> type,
     serializer   |-> Obj("old_serializer"),
     deserializer |-> Obj("old_deserializer"),
     accept       |-> Obj("old_accept"),
     content_type |-> Obj("old_content_type")]

-----------------------------------------------------------------------------
(* Pipelines *)

InitFields == (InitParams \ {"model_from_estimator"}) \cup {"model_id"}
DeployFields == DeployParams \cup {"model_id"}
RegisterFields ==
    ((RegisterParams \ {"supported_content_types"}) \cup {"content_types", "model_id"})

\* mutant: the model data step runs whatever model_from_estimator is
InitStepsAlwaysModelData(a) ==
    <<"model_version", "vulnerable_and_deprecated", "region", "sagemaker_session",
      "model_name", "instance_type", "image_uri", "model_data",
      "source_dir", "entry_point", "env", "predictor_cls", "extra_model_kwargs",
      "role", "model_package_arn", "resources", "return">>

\* mutant: the resource name and the image URI are looked up before the region,
\* the session and the instance type are resolved
InitStepsLookupsEarly(a) ==
    <<"model_version", "vulnerable_and_deprecated", "model_name", "image_uri",
      "region", "sagemaker_session", "instance_type">>
    \o (IF ~Truthy(a["model_from_estimator"]) THEN <<"model_data">> ELSE <<>>)
    \o <<"source_dir", "entry_point", "env", "predictor_cls", "extra_model_kwargs",
         "role", "model_package_arn", "resources", "return">>

\* body of get_init_kwargs after the record is constructed
InitSteps(a) ==
    <<"model_version", "vulnerable_and_deprecated", "region", "sagemaker_session",
      "model_name", "instance_type", "image_uri">>
    \o (IF ~Truthy(a["model_from_estimator"]) THEN <<"model_data">> ELSE <<>>)
    \o <<"source_dir", "entry_point", "env", "predictor_cls", "extra_model_kwargs",
         "role", "model_package_arn", "resources", "return">>

\* mutant: resources, endpoint_type and managed_instance_scaling are set for
\* every endpoint type
DeployStepsUngated(a) ==
    <<"sagemaker_session", "model_version", "endpoint_name", "instance_type",
      "initial_instance_count", "deploy_extra_kwargs", "tags",
      "resources", "endpoint_type", "return">>

\* body of get_deploy_kwargs after the record is constructed
DeploySteps(a) ==
    <<"sagemaker_session", "model_version", "endpoint_name", "instance_type",
      "initial_instance_count", "deploy_extra_kwargs", "tags">>
    \o (IF a["endpoint_type"] = INFERENCE_COMPONENT_BASED
        THEN <<"resources", "endpoint_type">> ELSE <<>>)
    \o <<"return">>

RegisterSteps == <<"verify_specs", "content_types", "response_types", "return">>

PredictorSteps ==
    <<"check_type", "serializer", "deserializer", "accept", "content_type", "return">>

Steps ==
    CASE op = "init"      -> InitSteps(args)
      [] op = "deploy"    -> DeploySteps(args)
      [] op = "register"  -> RegisterSteps
      [] op = "predictor" -> PredictorSteps
      [] OTHER            -> <<>>

Step == IF status = "running" THEN Steps[pc] ELSE "none"

-----------------------------------------------------------------------------
(* Collaborators *)

NoInstanceType == Obj("not_passed")

\* the keyword arguments every catalog lookup is called with
CallRec(kind, withInstanceType) ==
    [kind                      |-> kind,
     model_version             |-> kwargs["model_version"],
     region                    |-> kwargs["region"],
     tolerate_deprecated_model |-> kwargs["tolerate_deprecated_model"],
     tolerate_vulnerable_model |-> kwargs["tolerate_vulnerable_model"],
     sagemaker_session         |-> kwargs["sagemaker_session"],
     instance_type             |-> IF withInstanceType THEN kwargs["instance_type"]
                                   ELSE NoInstanceType,
     training_instance_type    |-> IF kind = "instance_type"
                                      /\ "training_instance_type" \in DOMAIN kwargs
                                   THEN kwargs["training_instance_type"]
                                   ELSE NoInstanceType]

\* a lookup raises for an unknown model id, an unsupported region, a deprecated
\* or vulnerable model that is not tolerated, or a missing catalog entry
Fails(c) ==
    \/ ~catalog.known
    \/ c.region = OtherRegion /\ ~catalog.euSupported
    \/ catalog.deprecated /\ ~Truthy(c.tolerate_deprecated_model)
    \/ catalog.vulnerable /\ ~Truthy(c.tolerate_vulnerable_model)
    \/ catalog.failKind = c.kind

\* the default a lookup returns for its arguments
Ret(c) == [t |-> "ret", of |-> c]

\* sagemaker.utils.name_from_base
name_from_base(base) == [t |-> "name", base |-> base]

\* verify_model_region_and_return_specs
SpecsOf(c) ==
    [version                 |-> [t |-> "full_version", of |-> c],
     supported_content_types |-> [t |-> "supported_content_types", of |-> c],
     supported_accept_types  |-> [t |-> "supported_accept_types", of |-> c]]

\* sagemaker.jumpstart.utils.update_dict_if_key_not_present
update_dict_if_key_not_present(d, key, value) ==
    IF key \in DOMAIN d THEN d ELSE d @@ (key :> value)

\* sagemaker.jumpstart.utils.add_jumpstart_model_id_version_tags
JumpStartTag(key, value) == Dict(("Key" :> Str(<<key>>)) @@ ("Value" :> value))
add_jumpstart_model_id_version_tags(tags, model_id, model_version) ==
    List((IF tags = None THEN <<>> ELSE tags.l)
         \o <<JumpStartTag("sagemaker-sdk:jumpstart-model-id", model_id),
              JumpStartTag("sagemaker-sdk:jumpstart-model-version", model_version)>>)

\* sagemaker.jumpstart.utils.resolve_model_sagemaker_config_field
resolve_model_sagemaker_config_field(field_name, field_val, session, default_value) ==
    IF field_name = "role"
    THEN IF field_val # None THEN field_val
         ELSE IF default_value # None THEN default_value
         ELSE [t |-> "config_role", session |-> session]
    ELSE field_val

-----------------------------------------------------------------------------
(* Control flow shared by the steps *)

\* Python's `x or y`
Or(x, y) == IF Truthy(x) THEN x ELSE y

Advance ==
    /\ pc' = pc + 1
    /\ status' = status
    /\ result' = result

\* mutant: the exception is swallowed and the record built so far is returned
RaiseReturnsPartial ==
    /\ pc' = pc
    /\ status' = "returned"
    /\ result' = kwargs

\* an exception leaves the entry point: nothing is returned, nothing else runs
Raise ==
    /\ pc' = pc
    /\ status' = "raised"
    /\ result' = None

\* issue lookup c; on success store `updated` as the record
LookupThen(c, updated) ==
    /\ calls' = Append(calls, c)
    /\ IF Fails(c)
       THEN Raise /\ kwargs' = kwargs
       ELSE Advance /\ kwargs' = updated

\* mutant: the lookup is issued and its answer stored even when a value is held
FillOrLookupAlways(f, c, default) ==
    LookupThen(c, [kwargs EXCEPT ![f] = default])

\* mutant: the fallback is dropped, the field is left as it is
FillOrLookupNever(f, c, default) ==
    /\ kwargs' = kwargs
    /\ calls' = calls
    /\ Advance

\* kwargs.f = kwargs.f or lookup(c)
FillOrLookup(f, c, default) ==
    IF Truthy(kwargs[f])
    THEN /\ kwargs' = kwargs
         /\ calls' = calls
         /\ Advance
    ELSE LookupThen(c, [kwargs EXCEPT ![f] = default])

-----------------------------------------------------------------------------
(* Initial state *)

Init ==
    /\ catalog \in Catalogs
    /\ op = "none"
    /\ status = "idle"
    /\ pc = 0
    /\ args = EmptyMap
    /\ kwargs = EmptyMap
    /\ calls = <<>>
    /\ result = None
    /\ callerEnv = None
    /\ model_specs = None
    /\ predictor = None
    /\ previous = None

-----------------------------------------------------------------------------
(* Entry points: construction of the record *)

\* JumpStartModelInitKwargs(model_id=model_id, ...)
InitRecord(a) == [f \in InitFields |-> IF f = "model_id" THEN ModelId ELSE a[f]]

\* JumpStartModelDeployKwargs(model_id=model_id, ...): endpoint_type and
\* managed_instance_scaling are not passed
DeployRecord(a) ==
    [f \in DeployFields |->
        CASE f = "model_id" -> ModelId
          [] f \in {"endpoint_type", "managed_instance_scaling"} -> None
          [] OTHER -> a[f]]

\* JumpStartModelRegisterKwargs(model_id=model_id, ...,
\*                              content_types=supported_content_types, ...)
RegisterRecord(a) ==
    [f \in RegisterFields |->
        CASE f = "model_id" -> ModelId
          [] f = "content_types" -> a["supported_content_types"]
          [] OTHER -> a[f]]

get_init_kwargs ==
    /\ status = "idle"
    /\ \E a \in InitArgs :
        /\ args' = a
        /\ kwargs' = InitRecord(a)
        /\ callerEnv' = a["env"]
    /\ op' = "init"
    /\ status' = "running"
    /\ pc' = 1
    /\ UNCHANGED <<previous, catalog, calls, result, model_specs, predictor>>

get_deploy_kwargs ==
    /\ status = "idle"
    /\ \E a \in DeployArgs :
        /\ args' = a
        /\ kwargs' = DeployRecord(a)
    /\ op' = "deploy"
    /\ status' = "running"
    /\ pc' = 1
    /\ UNCHANGED <<previous, catalog, calls, result, callerEnv, model_specs, predictor>>

get_register_kwargs ==
    /\ status = "idle"
    /\ \E a \in RegisterArgs :
        /\ args' = a
        /\ kwargs' = RegisterRecord(a)
    /\ op' = "register"
    /\ status' = "running"
    /\ pc' = 1
    /\ UNCHANGED <<previous, catalog, calls, result, callerEnv, model_specs, predictor>>

get_default_predictor ==
    /\ status = "idle"
    /\ \E a \in PredictorArgs, type \in PredictorTypes :
        /\ args' = a
        /\ kwargs' = a
        /\ predictor' = FreshPredictor(type)
    /\ op' = "predictor"
    /\ status' = "running"
    /\ pc' = 1
    /\ UNCHANGED <<previous, catalog, calls, result, callerEnv, model_specs>>

-----------------------------------------------------------------------------
(* Steps without a catalog lookup *)

add_model_version_to_kwargs ==
    /\ Step = "model_version"
    /\ kwargs' = [kwargs EXCEPT !["model_version"] = Or(@, DefaultModelVersion)]
    /\ Advance
    /\ UNCHANGED <<previous, catalog, op, args, calls, callerEnv, model_specs, predictor>>

add_vulnerable_and_deprecated_status_to_kwargs ==
    /\ Step = "vulnerable_and_deprecated"
    /\ kwargs' = [kwargs EXCEPT
                    !["tolerate_deprecated_model"] = Or(@, Bool(FALSE)),
                    !["tolerate_vulnerable_model"] = Or(@, Bool(FALSE))]
    /\ Advance
    /\ UNCHANGED <<previous, catalog, op, args, calls, callerEnv, model_specs, predictor>>

add_region_to_kwargs ==
    /\ Step = "region"
    /\ kwargs' = [kwargs EXCEPT !["region"] = Or(@, JUMPSTART_DEFAULT_REGION_NAME)]
    /\ Advance
    /\ UNCHANGED <<previous, catalog, op, args, calls, callerEnv, model_specs, predictor>>

add_sagemaker_session_to_kwargs ==
    /\ Step = "sagemaker_session"
    /\ kwargs' = [kwargs EXCEPT
                    !["sagemaker_session"] = Or(@, DEFAULT_JUMPSTART_SAGEMAKER_SESSION)]
    /\ Advance
    /\ UNCHANGED <<previous, catalog, op, args, calls, callerEnv, model_specs, predictor>>

add_role_to_kwargs ==
    /\ Step = "role"
    /\ kwargs' = [kwargs EXCEPT !["role"] =
                    resolve_model_sagemaker_config_field(
                        "role", kwargs["role"], kwargs["sagemaker_session"], kwargs["role"])]
    /\ Advance
    /\ UNCHANGED <<previous, catalog, op, args, calls, callerEnv, model_specs, predictor>>

add_predictor_cls_to_kwargs ==
    /\ Step = "predictor_cls"
    /\ kwargs' = [kwargs EXCEPT !["predictor_cls"] = Or(@, PredictorClass)]
    /\ Advance
    /\ UNCHANGED <<previous, catalog, op, args, calls, callerEnv, model_specs, predictor>>

\* deploy_kwargs.initial_instance_count = initial_instance_count or 1
set_initial_instance_count ==
    /\ Step = "initial_instance_count"
    /\ kwargs' = [kwargs EXCEPT !["initial_instance_count"] =
                    Or(args["initial_instance_count"], Num(1))]
    /\ Advance
    /\ UNCHANGED <<previous, catalog, op, args, calls, callerEnv, model_specs, predictor>>

\* deploy_kwargs.endpoint_type / managed_instance_scaling, inference components only
set_endpoint_type ==
    /\ Step = "endpoint_type"
    /\ kwargs' = [kwargs EXCEPT
                    !["endpoint_type"] = args["endpoint_type"],
                    !["managed_instance_scaling"] = args["managed_instance_scaling"]]
    /\ Advance
    /\ UNCHANGED <<previous, catalog, op, args, calls, callerEnv, model_specs, predictor>>

-----------------------------------------------------------------------------
(* Steps that consult the catalog *)

add_instance_type_to_kwargs ==
    /\ Step = "instance_type"
    /\ LET c == CallRec("instance_type", FALSE)
       IN  FillOrLookup("instance_type", c, Ret(c))
    /\ UNCHANGED <<previous, catalog, op, args, callerEnv, model_specs, predictor>>

add_image_uri_to_kwargs ==
    /\ Step = "image_uri"
    /\ LET c == CallRec("image_uri", TRUE)
       IN  FillOrLookup("image_uri", c, Ret(c))
    /\ UNCHANGED <<previous, catalog, op, args, callerEnv, model_specs, predictor>>

\* mutant: the trailing slash is not required
IsS3PrefixAnySuffix(v) == v.t = "str" /\ StartsWith(v.s, S3Scheme)

\* isinstance(model_data, str) and startswith("s3://") and endswith("/")
IsS3Prefix(v) == v.t = "str" /\ StartsWith(v.s, S3Scheme) /\ EndsWith(v.s, Slash)

\* mutant: the value is wrapped without looking at it
S3PrefixToDataSourceAlways(v) == Descriptor(v)

S3PrefixToDataSource(v) == IF IsS3Prefix(v) THEN Descriptor(v) ELSE v

add_model_data_to_kwargs ==
    /\ Step = "model_data"
    /\ IF Truthy(kwargs["model_data"])
       THEN /\ kwargs' = [kwargs EXCEPT !["model_data"] = S3PrefixToDataSource(@)]
            /\ calls' = calls
            /\ Advance
       ELSE LookupThen(CallRec("model_uri", TRUE),
                       [kwargs EXCEPT !["model_data"] = S3PrefixToDataSource(catalog.modelUri)])
    /\ UNCHANGED <<previous, catalog, op, args, callerEnv, model_specs, predictor>>

\* mutant: the script URI is looked up whether or not the model supports a script
add_source_dir_to_kwargs_ungated ==
    /\ Step = "source_dir"
    /\ LET supports == CallRec("supports_script", FALSE)
           script == CallRec("script_uri", FALSE)
       IN  IF Fails(supports) \/ Truthy(kwargs["source_dir"])
           THEN LookupThen(supports, kwargs)
           ELSE /\ calls' = calls \o <<supports, script>>
                /\ IF Fails(script)
                   THEN Raise /\ kwargs' = kwargs
                   ELSE Advance /\ kwargs' = [kwargs EXCEPT !["source_dir"] = Ret(script)]
    /\ UNCHANGED <<previous, catalog, op, args, callerEnv, model_specs, predictor>>

add_source_dir_to_kwargs ==
    /\ Step = "source_dir"
    /\ LET supports == CallRec("supports_script", FALSE)
           script == CallRec("script_uri", FALSE)
       IN  IF Fails(supports) \/ ~catalog.supportsScript \/ Truthy(kwargs["source_dir"])
           THEN LookupThen(supports, kwargs)
           ELSE /\ calls' = calls \o <<supports, script>>
                /\ IF Fails(script)
                   THEN Raise /\ kwargs' = kwargs
                   ELSE Advance /\ kwargs' = [kwargs EXCEPT !["source_dir"] = Ret(script)]
    /\ UNCHANGED <<previous, catalog, op, args, callerEnv, model_specs, predictor>>

add_entry_point_to_kwargs ==
    /\ Step = "entry_point"
    /\ LookupThen(CallRec("supports_script", FALSE),
                  IF catalog.supportsScript
                  THEN [kwargs EXCEPT !["entry_point"] =
                            Or(@, INFERENCE_ENTRY_POINT_SCRIPT_NAME)]
                  ELSE kwargs)
    /\ UNCHANGED <<previous, catalog, op, args, callerEnv, model_specs, predictor>>

\* mutant: the catalog's value replaces the caller's for a key both define
MergeEnvCatalogWins(env, extra, keys) ==
    [k \in DOMAIN env \cup keys |-> IF k \in keys THEN extra[k] ELSE env[k]]

\* mutant: an empty map is kept as it is
EmptyEnvKept(env) == Dict(env)

\* if env == {}: env = None
EmptyEnvToNone(env) == IF env = EmptyMap THEN None ELSE Dict(env)

\* for key, value in extra_env_vars.items(): update_dict_if_key_not_present(env, key, value)
RECURSIVE MergeEnv(_, _, _)
MergeEnv(env, extra, keys) ==
    IF keys = {} THEN env
    ELSE LET key == CHOOSE k \in keys : TRUE
         IN  MergeEnv(update_dict_if_key_not_present(env, key, extra[key]),
                      extra, keys \ {key})

add_env_to_kwargs ==
    /\ Step = "env"
    /\ LET c == CallRec("env_vars", TRUE)
           env == IF kwargs["env"] = None THEN EmptyMap ELSE kwargs["env"].d
           extra_env_vars == catalog.defaultEnv.d
           merged == MergeEnv(env, extra_env_vars, DOMAIN extra_env_vars)
       IN  /\ LookupThen(c, [kwargs EXCEPT !["env"] = EmptyEnvToNone(merged)])
           \* the loop updates the dict object in place: the caller's, when one was passed
           /\ callerEnv' = IF ~Fails(c) /\ kwargs["env"] # None THEN Dict(merged)
                           ELSE callerEnv
    /\ UNCHANGED <<previous, catalog, op, args, model_specs, predictor>>

add_model_package_arn_to_kwargs ==
    /\ Step = "model_package_arn"
    /\ LET c == CallRec("model_package_arn", TRUE)
       IN  FillOrLookup("model_package_arn", c, Ret(c))
    /\ UNCHANGED <<previous, catalog, op, args, callerEnv, model_specs, predictor>>

\* for key, value in bundle.items(): if getattr(kwargs, key) is None: setattr(...)
FillUnset(kw, bundle, session) ==
    [f \in DOMAIN kw |->
        IF f \in DOMAIN bundle /\ kw[f] = None
        THEN resolve_model_sagemaker_config_field(f, bundle[f], session, None)
        ELSE kw[f]]

add_extra_model_kwargs ==
    /\ Step = "extra_model_kwargs"
    /\ LookupThen(CallRec("init_kwargs", FALSE),
                  FillUnset(kwargs, InitBundle, kwargs["sagemaker_session"]))
    /\ UNCHANGED <<previous, catalog, op, args, callerEnv, model_specs, predictor>>

\* mutant: the bundle overwrites the fields that already hold a value
add_deploy_extra_kwargs_overwrite ==
    /\ Step = "deploy_extra_kwargs"
    /\ LookupThen(CallRec("deploy_kwargs", TRUE),
                  [f \in DOMAIN kwargs |->
                      IF f \in DOMAIN DeployBundle THEN DeployBundle[f] ELSE kwargs[f]])
    /\ UNCHANGED <<previous, catalog, op, args, callerEnv, model_specs, predictor>>

add_deploy_extra_kwargs ==
    /\ Step = "deploy_extra_kwargs"
    /\ LookupThen(CallRec("deploy_kwargs", TRUE),
                  [f \in DOMAIN kwargs |->
                      IF f \in DOMAIN DeployBundle /\ kwargs[f] = None
                      THEN DeployBundle[f] ELSE kwargs[f]])
    /\ UNCHANGED <<previous, catalog, op, args, callerEnv, model_specs, predictor>>

add_resources_to_kwargs ==
    /\ Step = "resources"
    /\ LET c == CallRec("resource_requirements", FALSE)
       IN  FillOrLookup("resources", c, Ret(c))
    /\ UNCHANGED <<previous, catalog, op, args, callerEnv, model_specs, predictor>>

\* shared by _add_model_name_to_kwargs and _add_endpoint_name_to_kwargs
AddResourceName(f) ==
    LookupThen(CallRec("resource_name_base", FALSE),
               [kwargs EXCEPT ![f] =
                   Or(@, IF catalog.nameBase # None
                         THEN name_from_base(catalog.nameBase) ELSE None)])

add_model_name_to_kwargs ==
    /\ Step = "model_name"
    /\ AddResourceName("name")
    /\ UNCHANGED <<previous, catalog, op, args, callerEnv, model_specs, predictor>>

add_endpoint_name_to_kwargs ==
    /\ Step = "endpoint_name"
    /\ AddResourceName("endpoint_name")
    /\ UNCHANGED <<previous, catalog, op, args, callerEnv, model_specs, predictor>>

\* mutant: the tags are added whatever the session's setting
add_tags_to_kwargs_unconditional ==
    /\ Step = "tags"
    /\ LET c == CallRec("verify_specs", FALSE)
           full_model_version == SpecsOf(c).version
       IN  LookupThen(c,
               [kwargs EXCEPT !["tags"] =
                    add_jumpstart_model_id_version_tags(
                        @, kwargs["model_id"], full_model_version)])
    /\ UNCHANGED <<previous, catalog, op, args, callerEnv, model_specs, predictor>>

add_tags_to_kwargs ==
    /\ Step = "tags"
    /\ LET c == CallRec("verify_specs", FALSE)
           full_model_version == SpecsOf(c).version
       IN  LookupThen(c,
               IF IncludeJumpstartTags(kwargs["sagemaker_session"])
               THEN [kwargs EXCEPT !["tags"] =
                        add_jumpstart_model_id_version_tags(
                            @, kwargs["model_id"], full_model_version)]
               ELSE kwargs)
    /\ UNCHANGED <<previous, catalog, op, args, callerEnv, model_specs, predictor>>

-----------------------------------------------------------------------------
(* get_register_kwargs *)

register_verify_specs ==
    /\ Step = "verify_specs"
    /\ LET c == CallRec("verify_specs", FALSE)
       IN  /\ LookupThen(c, kwargs)
           /\ model_specs' = IF Fails(c) THEN model_specs ELSE SpecsOf(c)
    /\ UNCHANGED <<previous, catalog, op, args, callerEnv, predictor>>

register_content_types ==
    /\ Step = "content_types"
    /\ kwargs' = [kwargs EXCEPT !["content_types"] =
                    Or(@, model_specs.supported_content_types)]
    /\ Advance
    /\ UNCHANGED <<previous, catalog, op, args, calls, callerEnv, model_specs, predictor>>

register_response_types ==
    /\ Step = "response_types"
    /\ kwargs' = [kwargs EXCEPT !["response_types"] =
                    Or(@, model_specs.supported_accept_types)]
    /\ Advance
    /\ UNCHANGED <<previous, catalog, op, args, calls, callerEnv, model_specs, predictor>>

-----------------------------------------------------------------------------
(* get_default_predictor *)

\* mutant: subclasses of Predictor are accepted
predictor_check_type_isinstance ==
    /\ Step = "check_type"
    /\ Advance
    /\ UNCHANGED <<previous, catalog, op, args, kwargs, calls, callerEnv, model_specs, predictor>>

\* if type(predictor) != Predictor: raise RuntimeError
predictor_check_type ==
    /\ Step = "check_type"
    /\ IF predictor.type # "Predictor" THEN Raise ELSE Advance
    /\ UNCHANGED <<previous, catalog, op, args, kwargs, calls, callerEnv, model_specs, predictor>>

\* predictor.<attr> = <module>.retrieve_default(...)
SetPredictorAttr(attr) ==
    LET c == CallRec(attr, FALSE)
    IN  /\ calls' = Append(calls, c)
        /\ IF Fails(c)
           THEN Raise /\ predictor' = predictor
           ELSE Advance /\ predictor' = [predictor EXCEPT ![attr] = Ret(c)]

predictor_set_serializer ==
    /\ Step = "serializer"
    /\ SetPredictorAttr("serializer")
    /\ UNCHANGED <<previous, catalog, op, args, kwargs, callerEnv, model_specs>>

predictor_set_deserializer ==
    /\ Step = "deserializer"
    /\ SetPredictorAttr("deserializer")
    /\ UNCHANGED <<previous, catalog, op, args, kwargs, callerEnv, model_specs>>

predictor_set_accept ==
    /\ Step = "accept"
    /\ SetPredictorAttr("accept")
    /\ UNCHANGED <<previous, catalog, op, args, kwargs, callerEnv, model_specs>>

predictor_set_content_type ==
    /\ Step = "content_type"
    /\ SetPredictorAttr("content_type")
    /\ UNCHANGED <<previous, catalog, op, args, kwargs, callerEnv, model_specs>>

-----------------------------------------------------------------------------
(* A second call by the same caller, against the same catalog *)

KwargsEntryPoints == {"init", "deploy", "register"}

RecordFor(o, a) ==
    CASE o = "init"   -> InitRecord(a)
      [] o = "deploy" -> DeployRecord(a)
      [] OTHER        -> RegisterRecord(a)

\* the entry point is entered again with arguments a
CallAgain(mode, a) ==
    /\ previous' = [mode |-> mode, args |-> args, result |-> result]
    /\ args' = a
    /\ kwargs' = RecordFor(op, a)
    /\ status' = "running"
    /\ pc' = 1
    /\ calls' = <<>>
    /\ result' = None
    /\ model_specs' = None
    /\ callerEnv' = IF op = "init" THEN a["env"] ELSE callerEnv
    /\ UNCHANGED <<catalog, op, predictor>>

\* the caller repeats the call with the very same argument objects; the dict
\* passed as env is the same object, with the content it has by now
call_again_same_arguments ==
    /\ status = "returned"
    /\ op \in KwargsEntryPoints
    /\ previous = None
    /\ CallAgain("same", IF op = "init" THEN [args EXCEPT !["env"] = callerEnv] ELSE args)

\* the caller passes the fields of the record get_init_kwargs returned back in
\* as the arguments of a second get_init_kwargs call
call_again_with_result ==
    /\ status = "returned"
    /\ op = "init"
    /\ previous = None
    /\ CallAgain("result", [f \in InitParams |->
                               IF f = "model_from_estimator" THEN args[f] ELSE result[f]])

-----------------------------------------------------------------------------
(* Return *)

ThePredictor == [t |-> "ref", id |-> "predictor"]

Return ==
    /\ Step = "return"
    /\ status' = "returned"
    /\ result' = IF op = "predictor" THEN ThePredictor ELSE kwargs
    /\ UNCHANGED <<previous, catalog, op, pc, args, kwargs, calls, callerEnv, model_specs, predictor>>

Next ==
    \/ get_init_kwargs
    \/ get_deploy_kwargs
    \/ get_register_kwargs
    \/ get_default_predictor
    \/ add_model_version_to_kwargs
    \/ add_vulnerable_and_deprecated_status_to_kwargs
    \/ add_region_to_kwargs
    \/ add_sagemaker_session_to_kwargs
    \/ add_model_name_to_kwargs
    \/ add_instance_type_to_kwargs
    \/ add_image_uri_to_kwargs
    \/ add_model_data_to_kwargs
    \/ add_source_dir_to_kwargs
    \/ add_entry_point_to_kwargs
    \/ add_env_to_kwargs
    \/ add_predictor_cls_to_kwargs
    \/ add_extra_model_kwargs
    \/ add_role_to_kwargs
    \/ add_model_package_arn_to_kwargs
    \/ add_resources_to_kwargs
    \/ add_endpoint_name_to_kwargs
    \/ set_initial_instance_count
    \/ add_deploy_extra_kwargs
    \/ add_tags_to_kwargs
    \/ set_endpoint_type
    \/ register_verify_specs
    \/ register_content_types
    \/ register_response_types
    \/ predictor_check_type
    \/ predictor_set_serializer
    \/ predictor_set_deserializer
    \/ predictor_set_accept
    \/ predictor_set_content_type
    \/ Return

Spec == Init /\ [][Next]_vars

\* get_init_kwargs called, and called a second time by the same caller
NextRepeat ==
    \/ get_init_kwargs
    \/ call_again_same_arguments
    \/ call_again_with_result
    \/ add_model_version_to_kwargs
    \/ add_vulnerable_and_deprecated_status_to_kwargs
    \/ add_region_to_kwargs
    \/ add_sagemaker_session_to_kwargs
    \/ add_model_name_to_kwargs
    \/ add_instance_type_to_kwargs
    \/ add_image_uri_to_kwargs
    \/ add_model_data_to_kwargs
    \/ add_source_dir_to_kwargs
    \/ add_entry_point_to_kwargs
    \/ add_env_to_kwargs
    \/ add_predictor_cls_to_kwargs
    \/ add_extra_model_kwargs
    \/ add_role_to_kwargs
    \/ add_model_package_arn_to_kwargs
    \/ add_resources_to_kwargs
    \/ Return

SpecRepeat == Init /\ [][NextRepeat]_vars

-----------------------------------------------------------------------------
(* Vocabulary of the properties *)

Returned(o) == status = "returned" /\ op = o

KwargsOps == {"init", "deploy", "register"}

\* the parameter of the entry point that initialises field f
ArgFor(f) == IF op = "register" /\ f = "content_types" THEN "supported_content_types" ELSE f

\* the catalog lookup that supplies the default of a field
LookupFor ==
    CASE op = "init" ->
            [name |-> "resource_name_base", instance_type |-> "instance_type",
             image_uri |-> "image_uri", model_data |-> "model_uri",
             source_dir |-> "script_uri", env |-> "env_vars",
             model_package_arn |-> "model_package_arn",
             resources |-> "resource_requirements"]
      [] op = "deploy" ->
            [endpoint_name |-> "resource_name_base", instance_type |-> "instance_type",
             tags |-> "verify_specs", resources |-> "resource_requirements"]
      [] op = "register" ->
            [content_types |-> "verify_specs", response_types |-> "verify_specs"]
      [] OTHER -> EmptyMap

Issued(kind) == \E i \in 1..Len(calls) : calls[i].kind = kind

\* the lookup of this kind that was issued (each kind is issued with the same arguments)
CallOf(kind) == calls[CHOOSE i \in 1..Len(calls) : calls[i].kind = kind]

ValueOrEmpty(v) == IF v = None THEN EmptyMap ELSE v.d

-----------------------------------------------------------------------------
(* C1 *)

NotKeptVerbatim ==
    CASE op = "init"   -> {"env", "model_data"}
      [] op = "deploy" -> {"tags", "endpoint_type", "managed_instance_scaling"}
      [] OTHER         -> {}

\* fields whose lookup is skipped when a value is supplied
LookupSkipped ==
    CASE op = "init"   -> {"instance_type", "image_uri", "model_data", "source_dir",
                           "model_package_arn", "resources"}
      [] op = "deploy" -> {"instance_type", "resources"}
      [] OTHER         -> {}

-----------------------------------------------------------------------------
(* C2 *)

\* what the collaborator answers for the default of field f
CollaboratorDefault(f) ==
    CASE f \in {"name", "endpoint_name"} ->
            IF catalog.nameBase # None THEN name_from_base(catalog.nameBase) ELSE None
      [] f = "model_data" -> catalog.modelUri
      [] f = "env" -> catalog.defaultEnv
      [] f = "content_types" -> model_specs.supported_content_types
      [] f = "response_types" -> model_specs.supported_accept_types
      [] OTHER ->
            Ret([kind |-> LookupFor[f],
                 model_version |-> kwargs["model_version"],
                 region |-> kwargs["region"],
                 tolerate_deprecated_model |-> kwargs["tolerate_deprecated_model"],
                 tolerate_vulnerable_model |-> kwargs["tolerate_vulnerable_model"],
                 sagemaker_session |-> kwargs["sagemaker_session"],
                 instance_type |-> IF f \in {"image_uri", "model_package_arn"}
                                   THEN kwargs["instance_type"] ELSE NoInstanceType,
                 training_instance_type |->
                     IF f = "instance_type" /\ op = "init"
                     THEN kwargs["training_instance_type"] ELSE NoInstanceType])

\* C2 as stated: every field the caller leaves unset holds the collaborator's
\* default in the returned record.
C2_AsStated ==
    (status = "returned" /\ op \in KwargsOps) =>
        \A f \in DOMAIN LookupFor \ {"tags"} :
            args[ArgFor(f)] = None => kwargs[f] = CollaboratorDefault(f)

\* fields that hold the collaborator's default whenever they are left unset
AlwaysDefaulted ==
    CASE op = "init"     -> {"instance_type", "image_uri", "model_package_arn", "resources"}
      [] op = "deploy"   -> {"instance_type"}
      [] op = "register" -> {"content_types", "response_types"}
      [] OTHER           -> {}

\* C2 (amended): left unset, instance_type, image_uri, model_package_arn, init's
\* resources and register's content_types / response_types hold the collaborator's
\* default for the record's version, region and instance type; name and
\* endpoint_name hold the name generated from the catalog's base name when there
\* is one; model_data holds the default model URI, as S3DataSource descriptor when
\* it is an s3 prefix, unless model_from_estimator; source_dir and entry_point are
\* defaulted only for models that support an inference script; env holds the
\* catalog's variables or stays unset when there are none; deploy's resources is
\* defaulted only for INFERENCE_COMPONENT_BASED endpoints.
C2_UnsetGetsDefault ==
    (status = "returned" /\ op \in KwargsOps) =>
        /\ \A f \in AlwaysDefaulted :
              args[ArgFor(f)] = None => kwargs[f] = CollaboratorDefault(f)
        /\ \A f \in {"name", "endpoint_name"} \cap DOMAIN kwargs :
              (args[f] = None /\ catalog.nameBase # None)
                  => kwargs[f] = CollaboratorDefault(f)
        /\ op = "init" =>
            /\ args["model_data"] = None =>
                  kwargs["model_data"] =
                      IF Truthy(args["model_from_estimator"]) THEN None
                      ELSE IF IsS3Prefix(catalog.modelUri) THEN Descriptor(catalog.modelUri)
                      ELSE catalog.modelUri
            /\ args["source_dir"] = None =>
                  kwargs["source_dir"] =
                      IF catalog.supportsScript THEN CollaboratorDefault("source_dir")
                      ELSE None
            /\ args["entry_point"] = None =>
                  kwargs["entry_point"] =
                      IF catalog.supportsScript THEN INFERENCE_ENTRY_POINT_SCRIPT_NAME
                      ELSE None
            /\ args["env"] = None =>
                  kwargs["env"] =
                      IF Truthy(catalog.defaultEnv) THEN catalog.defaultEnv ELSE None
        /\ (op = "deploy" /\ args["resources"] = None) =>
                  kwargs["resources"] =
                      IF args["endpoint_type"] = INFERENCE_COMPONENT_BASED
                      THEN CollaboratorDefault("resources") ELSE None

\* C2 witness: get_init_kwargs returned with instance type and image URI left
\* unset and filled by the lookups
C2_Witness ==
    /\ Returned("init")
    /\ args["instance_type"] = None
    /\ args["image_uri"] = None
    /\ kwargs["image_uri"].t = "ret"
    /\ kwargs["image_uri"].of.instance_type = kwargs["instance_type"]
    /\ kwargs["instance_type"].t = "ret"

-----------------------------------------------------------------------------
(* C3 *)

\* the model data get_init_kwargs works on: the caller's value, or the catalog's
EffectiveModelData == IF Truthy(args["model_data"]) THEN args["model_data"] ELSE catalog.modelUri

\* a string that begins with s3:// and ends with /
MatchesS3PrefixPattern(v) ==
    /\ v.t = "str"
    /\ Len(v.s) >= 5
    /\ <<v.s[1], v.s[2], v.s[3], v.s[4], v.s[5]>> = <<"s", "3", ":", "/", "/">>
    /\ v.s[Len(v.s)] = "/"

\* C3: with model_from_estimator false, model data matching the s3 prefix pattern
\* is returned as {S3DataSource: {S3Uri: <the string>, S3DataType: S3Prefix,
\* CompressionType: None}}, and any other model data is returned unchanged.
C3_S3PrefixNormalised ==
    (Returned("init") /\ ~Truthy(args["model_from_estimator"])) =>
        IF MatchesS3PrefixPattern(EffectiveModelData)
        THEN kwargs["model_data"] =
                Dict("S3DataSource" :>
                     Dict(("S3Uri" :> EffectiveModelData)
                          @@ ("S3DataType" :> Str(<<"S3Prefix">>))
                          @@ ("CompressionType" :> Str(<<"None">>))))
        ELSE kwargs["model_data"] = EffectiveModelData

\* C3 witness: the catalog's default model URI is an s3 prefix and was converted
C3_Witness ==
    /\ Returned("init")
    /\ args["model_data"] = None
    /\ Issued("model_uri")
    /\ catalog.modelUri = PrefixUri
    /\ kwargs["model_data"].t = "dict"
    /\ kwargs["model_data"].d["S3DataSource"].d["S3Uri"] = PrefixUri

-----------------------------------------------------------------------------
(* C4 *)

\* C4: without inference-script support entry_point and source_dir are returned as
\* the caller passed them (unset stays unset); with support an unset source_dir is
\* the script URI of the catalog and an unset entry_point the fixed script name.
C4_ScriptModeGating ==
    Returned("init") =>
        IF ~catalog.supportsScript
        THEN /\ kwargs["source_dir"] = args["source_dir"]
             /\ kwargs["entry_point"] = args["entry_point"]
             /\ ~Issued("script_uri")
        ELSE /\ kwargs["source_dir"] =
                    IF Truthy(args["source_dir"]) THEN args["source_dir"]
                    ELSE Ret(CallOf("script_uri"))
             /\ kwargs["entry_point"] =
                    IF Truthy(args["entry_point"]) THEN args["entry_point"]
                    ELSE INFERENCE_ENTRY_POINT_SCRIPT_NAME

\* C4 witness: a model without script support, both fields left unset and
\* returned unset
C4_Witness ==
    /\ Returned("init")
    /\ ~catalog.supportsScript
    /\ args["source_dir"] = None
    /\ args["entry_point"] = None
    /\ kwargs["source_dir"] = None
    /\ kwargs["entry_point"] = None
    /\ Issued("supports_script")

-----------------------------------------------------------------------------
(* C5 *)

\* C5: the returned env has the keys of the caller's map and of the catalog's
\* defaults; a key of the caller keeps the caller's value, any other key has the
\* catalog's value.
C5_EnvMerge ==
    Returned("init") =>
        LET caller == ValueOrEmpty(args["env"])
            defaults == catalog.defaultEnv.d
            resolved == ValueOrEmpty(kwargs["env"])
        IN  /\ DOMAIN resolved = DOMAIN caller \cup DOMAIN defaults
            /\ \A k \in DOMAIN caller : resolved[k] = caller[k]
            /\ \A k \in DOMAIN defaults \ DOMAIN caller : resolved[k] = defaults[k]

\* C5 witness: override {A: 1}, defaults {A: 2, B: 3}, result {A: 1, B: 3}
C5_Witness ==
    /\ Returned("init")
    /\ args["env"] = Dict("A" :> Str(<<"1">>))
    /\ catalog.defaultEnv = Dict(("A" :> Str(<<"2">>)) @@ ("B" :> Str(<<"3">>)))
    /\ kwargs["env"] = Dict(("A" :> Str(<<"1">>)) @@ ("B" :> Str(<<"3">>)))

-----------------------------------------------------------------------------
(* C6 *)

\* C6: the returned env is unset or a non-empty map, and it is unset whenever the
\* caller's map (if any) and the catalog's defaults are both empty.
C6_EmptyEnvIsUnset ==
    Returned("init") =>
        /\ kwargs["env"] = None \/ (kwargs["env"].t = "dict" /\ DOMAIN kwargs["env"].d # {})
        /\ (DOMAIN ValueOrEmpty(args["env"]) = {} /\ DOMAIN catalog.defaultEnv.d = {})
                => kwargs["env"] = None

\* C6 witness: the caller passed an empty map, the catalog has no variables
C6_Witness ==
    /\ Returned("init")
    /\ args["env"] = Dict(EmptyMap)
    /\ DOMAIN catalog.defaultEnv.d = {}
    /\ Issued("env_vars")
    /\ kwargs["env"] = None

-----------------------------------------------------------------------------
(* C7 *)

\* C7: get_deploy_kwargs returns the caller's tags followed by the model id tag
\* and the full model version tag when the session's include_jumpstart_tags is
\* set, and exactly the caller's tags when it is not.
C7_TagsOnlyWhenEnabled ==
    Returned("deploy") =>
        IF IncludeJumpstartTags(kwargs["sagemaker_session"])
        THEN LET own == IF args["tags"] = None THEN <<>> ELSE args["tags"].l
                 got == kwargs["tags"].l
             IN  /\ Len(got) = Len(own) + 2
                 /\ SubSeq(got, 1, Len(own)) = own
                 /\ got[Len(own) + 1].d["Value"] = ModelId
                 /\ got[Len(own) + 2].d["Value"] = SpecsOf(CallOf("verify_specs")).version
        ELSE kwargs["tags"] = args["tags"]

\* C7 witness: the flag of the session is off and the caller's tags come back
C7_Witness ==
    /\ Returned("deploy")
    /\ ~IncludeJumpstartTags(kwargs["sagemaker_session"])
    /\ args["tags"] = List(<<UserTag>>)
    /\ kwargs["tags"] = List(<<UserTag>>)
    /\ Issued("verify_specs")

-----------------------------------------------------------------------------
(* C8 *)

MergeSteps == {"deploy_extra_kwargs", "extra_model_kwargs", "resources"}

\* the catalog-provided bundle the merge step draws from
BundleOf(step) ==
    CASE step = "deploy_extra_kwargs" -> DeployBundle
      [] step = "extra_model_kwargs"  -> InitBundle
      [] step = "resources" ->
            "resources" :> Ret(CallRec("resource_requirements", FALSE))
      [] OTHER -> EmptyMap

\* C8: when a merge step completes, every field that held a value before it holds
\* the same value after it, every unset field the bundle provides holds the
\* bundle's value, and every other field is still unset.
C8_FillOnlyIfUnset ==
    [][(Step \in MergeSteps /\ pc' = pc + 1) =>
          \A f \in DOMAIN kwargs :
              kwargs'[f] = IF kwargs[f] # None THEN kwargs[f]
                           ELSE IF f \in DOMAIN BundleOf(Step) THEN BundleOf(Step)[f]
                           ELSE None]_vars

\* C8 witness: get_deploy_kwargs past the merge; the caller's endpoint name, the
\* looked-up instance type and the instance count of the earlier steps are kept
\* although the bundle provides all three, and the unset timeout is the bundle's
C8_Witness ==
    /\ op = "deploy"
    /\ status = "running"
    /\ Step = "tags"
    /\ DOMAIN DeployBundle # {}
    /\ kwargs["endpoint_name"] = Str(<<"n">>)
    /\ kwargs["instance_type"].t = "ret"
    /\ kwargs["initial_instance_count"] = Num(1)
    /\ kwargs["model_data_download_timeout"] = DeployBundle["model_data_download_timeout"]

-----------------------------------------------------------------------------
(* C9 *)

PredictorAttrs == {"serializer", "deserializer", "accept", "content_type"}

-----------------------------------------------------------------------------
(* C10 *)

\* C10: a step of get_init_kwargs, get_deploy_kwargs or get_register_kwargs in
\* which a lookup fails ends the call with the error: the failing lookup is the
\* last one issued, nothing is returned and the record is not touched; after the
\* error no step runs.
C10_FailurePropagates ==
    [][(op' \in KwargsOps) =>
          /\ (\E i \in (Len(calls) + 1)..Len(calls') : Fails(calls'[i])) =>
                /\ Fails(calls'[Len(calls')])
                /\ status' = "raised"
                /\ result' = None
                /\ kwargs' = kwargs
          /\ status = "raised" => UNCHANGED vars]_vars

\* C10 witness: get_init_kwargs failed at the environment lookup with the earlier
\* fields already filled in
C10_Witness ==
    /\ op = "init"
    /\ status = "raised"
    /\ result = None
    /\ Len(calls) > 3
    /\ calls[Len(calls)].kind = "env_vars"
    /\ kwargs["image_uri"].t = "ret"

-----------------------------------------------------------------------------
(* C11 *)

\* C11 as stated: a call leaves the dict the caller passed as env as it was, and a
\* second call with the same arguments and catalog returns a record equal to the
\* first.
C11_CallsAreIndependent ==
    Returned("init") =>
        /\ callerEnv = args["env"]
        /\ (previous # None /\ previous.mode = "same") => result = previous.result

-----------------------------------------------------------------------------
(* C12 *)

\* the kinds of lookup issued in the current call
IssuedKinds == {calls[i].kind : i \in 1..Len(calls)}

\* the lookups get_init_kwargs issues for the arguments, the model data lookup apart
InitLookupsButModelData ==
    {"resource_name_base", "supports_script", "env_vars", "init_kwargs"}
    \cup {k \in {"instance_type", "image_uri", "model_package_arn"} : ~Truthy(args[k])}
    \cup (IF ~Truthy(args["resources"]) THEN {"resource_requirements"} ELSE {})
    \cup (IF catalog.supportsScript /\ ~Truthy(args["source_dir"])
          THEN {"script_uri"} ELSE {})

\* C12: with model_from_estimator true the model URI lookup is not issued and the
\* returned model_data is the value passed, whatever it is; the lookups of all the
\* other steps are issued as they are with model_from_estimator false.
C12_ModelFromEstimatorSkipsModelData ==
    Returned("init") =>
        IF Truthy(args["model_from_estimator"])
        THEN /\ kwargs["model_data"] = args["model_data"]
             /\ IssuedKinds = InitLookupsButModelData
        ELSE IssuedKinds = InitLookupsButModelData
                \cup (IF ~Truthy(args["model_data"]) THEN {"model_uri"} ELSE {})

\* C12 witness: an s3 prefix passed with model_from_estimator comes back as the
\* same string
C12_Witness ==
    /\ Returned("init")
    /\ args["model_from_estimator"] = Bool(TRUE)
    /\ args["model_data"] = PrefixUri
    /\ kwargs["model_data"] = PrefixUri
    /\ Issued("image_uri")
    /\ Issued("env_vars")

-----------------------------------------------------------------------------
(* C13 *)

\* C13: get_deploy_kwargs looks the resource requirements up and stores
\* endpoint_type and managed_instance_scaling only for INFERENCE_COMPONENT_BASED;
\* for any other endpoint_type no resource lookup is issued, resources is the
\* value passed, and endpoint_type and managed_instance_scaling are unset in the
\* returned record.
C13_ResourcesOnlyForInferenceComponents ==
    Returned("deploy") =>
        IF args["endpoint_type"] = INFERENCE_COMPONENT_BASED
        THEN /\ kwargs["endpoint_type"] = INFERENCE_COMPONENT_BASED
             /\ kwargs["managed_instance_scaling"] = args["managed_instance_scaling"]
             /\ IF Truthy(args["resources"])
                THEN kwargs["resources"] = args["resources"]
                     /\ ~Issued("resource_requirements")
                ELSE kwargs["resources"] = Ret(CallOf("resource_requirements"))
        ELSE /\ ~Issued("resource_requirements")
             /\ kwargs["resources"] = args["resources"]
             /\ kwargs["endpoint_type"] = None
             /\ kwargs["managed_instance_scaling"] = None

\* C13 witness: endpoint_type MODEL_BASED and managed_instance_scaling were passed
\* and neither is in the returned record
C13_Witness ==
    /\ Returned("deploy")
    /\ args["endpoint_type"] = MODEL_BASED
    /\ args["managed_instance_scaling"] = Str(<<"s">>)
    /\ kwargs["endpoint_type"] = None
    /\ kwargs["managed_instance_scaling"] = None
    /\ kwargs["resources"] = None

-----------------------------------------------------------------------------
(* C14 *)

InstanceTypeLookups == {"image_uri", "model_uri", "env_vars", "model_package_arn"}

\* C14: every lookup get_init_kwargs issues receives a model version, tolerate
\* flags, a region and a session that are not unset, equal to the caller's value
\* or to the default ("*", False, the default region, the default session), and
\* every lookup that takes an instance type receives a resolved one.
C14_LookupsAfterResolution ==
    op = "init" =>
        \A i \in 1..Len(calls) :
            /\ calls[i].model_version = Or(args["model_version"], DefaultModelVersion)
            /\ calls[i].tolerate_deprecated_model =
                    Or(args["tolerate_deprecated_model"], Bool(FALSE))
            /\ calls[i].tolerate_vulnerable_model =
                    Or(args["tolerate_vulnerable_model"], Bool(FALSE))
            /\ calls[i].region = Or(args["region"], JUMPSTART_DEFAULT_REGION_NAME)
            /\ calls[i].sagemaker_session =
                    Or(args["sagemaker_session"], DEFAULT_JUMPSTART_SAGEMAKER_SESSION)
            /\ calls[i].kind \in InstanceTypeLookups =>
                    /\ Truthy(calls[i].instance_type)
                    /\ calls[i].instance_type # NoInstanceType
                    /\ Issued("instance_type") \/ calls[i].instance_type = args["instance_type"]

\* C14 witness: nothing but the model id was passed, and the last lookup was
\* issued with the defaults and the looked-up instance type
C14_Witness ==
    /\ Returned("init")
    /\ args = InitDefaults
    /\ calls[Len(calls)].region = JUMPSTART_DEFAULT_REGION_NAME
    /\ CallOf("model_package_arn").instance_type.t = "ret"
    /\ CallOf("model_package_arn").instance_type.of.kind = "instance_type"

-----------------------------------------------------------------------------
(* C15 *)

\* C15: a second get_init_kwargs call whose arguments are the fields of the record
\* the first call returned does not fail and returns a record equal to the first.
C15_Idempotent ==
    (op = "init" /\ previous # None /\ previous.mode = "result") =>
        /\ status # "raised"
        /\ status = "returned" => result = previous.result

\* C15 witness: the second call returned; the first had converted the catalog's
\* s3 prefix, merged the env and generated the name, and the second kept them
C15_Witness ==
    /\ Returned("init")
    /\ previous # None
    /\ previous.mode = "result"
    /\ previous.args["model_data"] = None
    /\ previous.args["env"] = EnvA
    /\ previous.args["name"] = None
    /\ args["model_data"] = Descriptor(PrefixUri)
    /\ result["model_data"] = Descriptor(PrefixUri)
    /\ result["env"] = Dict(("A" :> Str(<<"1">>)) @@ ("B" :> Str(<<"3">>)))
    /\ result["name"].t = "name"
    /\ result = previous.result

====
